---- MODULE Spec2Model ----
(***************************************************************************)
(* Crawl4AI service (crawl4ai-service/main.py): request fingerprint,       *)
(* Redis result cache, result normalisation, crawl orchestration, batch    *)
(* dispatch and the cache/health endpoints; and the text compressor of the *)
(* proxy service (proxy-service/compressor.py).                             *)
(*                                                                         *)
(* Python strings are modelled as sequences of tokens (TLA+ strings), so   *)
(* that f-string concatenation is \o and a prefix added twice is visible.  *)
(* Python values of unknown shape (executor output, old cache entries) are *)
(* records [t, s, n, d]: t is the type tag, s the text of a str, n the     *)
(* value of an int, d the items of a dict in insertion order.              *)
(***************************************************************************)
EXTENDS Integers, Sequences, FiniteSets, TLC

VARIABLES
    startup,       \* startup_event: "pending", then "ok" or "failed" (the probe)
    redis_client,  \* the module-level handle: "None" or "client"
    storeUp,       \* environment: the Redis server answers
    store,         \* Redis: key -> [value, ttl], domain = keys present
    now,           \* wall clock, in ticks
    call,          \* perform_crawl invocations in flight, per slot
    bgTasks,       \* BackgroundTasks queue of the batch whose response was sent
    issued,        \* job ids handed out by POST /crawl/batch, and whether the
                   \* background crawl of the job has written its entry
    last,          \* what the step just taken completed and observed, if anything
    probe,         \* pure-function checks: inputs and results
    OPENROUTER_API_KEY,  \* compressor.py: the module-level key, read at import
    compressing    \* compressor.py: the compress call in flight

vars == <<startup, redis_client, storeUp, store, now, call, bgTasks, issued,
          last, probe, OPENROUTER_API_KEY, compressing>>

\* the state of the proxy service's compressor module
compressor == <<OPENROUTER_API_KEY, compressing>>

------------------------------------------------------------------------------
(* Bounds *)

MaxTime == 2        \* ticks of the clock
MaxLinks == 2       \* elements of the internal partition in the normaliser checks
SmallBatch == 2     \* longest batch in the service specification

------------------------------------------------------------------------------
(* Python values *)

PyStr(s) == [t |-> "str", s |-> s, n |-> 0, d |-> <<>>]
PyInt(n) == [t |-> "int", s |-> <<>>, n |-> n, d |-> <<>>]
PyNone == [t |-> "none", s |-> <<>>, n |-> 0, d |-> <<>>]
PyDict(d) == [t |-> "dict", s |-> <<>>, n |-> 0, d |-> d]
Item(k, v) == [k |-> k, v |-> v]

isinstance_dict(v) == v.t = "dict"
isinstance_str(v) == v.t = "str"

\* Python truthiness: bool(v)
Truthy(v) ==
    CASE v.t = "str" -> v.s # <<>>
      [] v.t = "int" -> v.n # 0
      [] v.t = "none" -> FALSE
      [] v.t = "dict" -> v.d # <<>>

Digits == <<"0", "1", "2", "3", "4", "5", "6", "7", "8", "9">>

\* repr() of a value stored in a dict
Repr(v) ==
    CASE v.t = "str" -> <<"'">> \o v.s \o <<"'">>
      [] v.t = "int" -> <<Digits[v.n + 1]>>
      [] v.t = "none" -> <<"None">>
      [] v.t = "dict" -> <<"{...}">>

RECURSIVE ReprItems(_)
ReprItems(d) ==
    IF d = <<>> THEN <<>>
    ELSE <<"'", d[1].k, "'", ": ">> \o Repr(d[1].v)
         \o (IF Len(d) > 1 THEN <<", ">> ELSE <<>>) \o ReprItems(Tail(d))

\* str(v): the text of v
str(v) ==
    CASE v.t = "str" -> v.s
      [] v.t = "int" -> <<Digits[v.n + 1]>>
      [] v.t = "none" -> <<"None">>
      [] v.t = "dict" -> <<"{">> \o ReprItems(v.d) \o <<"}">>

HasKey(m, k) == \E i \in 1..Len(m.d) : m.d[i].k = k

\* dict.get(k) without default: None when the key is absent
DictGet(m, k) ==
    IF HasKey(m, k)
    THEN m.d[CHOOSE i \in 1..Len(m.d) : m.d[i].k = k].v
    ELSE PyNone

\* dict.get(k, default)
DictGetDefault(m, k, default) == IF HasKey(m, k) THEN DictGet(m, k) ELSE default

\* Python's `a or b`
PyOr(a, b) == IF Truthy(a) THEN a ELSE b

------------------------------------------------------------------------------
(* Requests *)

Urls == {<<"http://a.example/">>, <<"http://b.example/">>}
ExtractionStrategies == {"auto", "llm", "cosine"}
ChunkingStrategies == {"regex", "markdown", "sliding"}

\* The request fields that do not enter the cache key, as bundles
OtherFields ==
    { [timeout |-> 30, wait_for |-> "None", js_code |-> "None",
       css_selector |-> "None", word_count_threshold |-> 10],
      [timeout |-> 120, wait_for |-> "#main", js_code |-> "None",
       css_selector |-> "None", word_count_threshold |-> 10],
      [timeout |-> 5, wait_for |-> "None", js_code |-> "scroll()",
       css_selector |-> "article", word_count_threshold |-> 1] }

DefaultOther == [timeout |-> 30, wait_for |-> "None", js_code |-> "None",
                 css_selector |-> "None", word_count_threshold |-> 10]

CrawlRequest(url, extraction, chunking, screenshot, other) ==
    [url |-> url, extraction_strategy |-> extraction,
     chunking_strategy |-> chunking, screenshot |-> screenshot,
     wait_for |-> other.wait_for, timeout |-> other.timeout,
     js_code |-> other.js_code, css_selector |-> other.css_selector,
     word_count_threshold |-> other.word_count_threshold]

AllRequests ==
    { CrawlRequest(u, e, c, s, o) :
        u \in Urls, e \in ExtractionStrategies, c \in ChunkingStrategies,
        s \in BOOLEAN, o \in OtherFields }

------------------------------------------------------------------------------
(* Fingerprint *)

\* json.dumps of a bool
JsonBool(b) == IF b THEN "true" ELSE "false"

\* json.dumps(params, sort_keys=True) of the cache_params dict
json_dumps_params(params) ==
    <<"{", "\"chunking\": ", params.chunking, ", ",
      "\"extraction\": ", params.extraction, ", ",
      "\"screenshot\": ", JsonBool(params.screenshot), "}">>

\* hashlib.md5(...).hexdigest(), the digest taken as collision-free
md5_hexdigest(data) == <<"md5(">> \o data \o <<")">>

generate_cache_key(url, params) ==
    <<"crawl:">> \o md5_hexdigest(url \o <<":">> \o json_dumps_params(params))

\* a mutation: the screenshot flag left out of the key parameters
cache_params_NoScreenshot(request) ==
    [extraction |-> request.extraction_strategy,
     chunking |-> request.chunking_strategy,
     screenshot |-> FALSE]

\* perform_crawl and batch_crawl: the parameters that enter the key
cache_params(request) ==
    [extraction |-> request.extraction_strategy,
     chunking |-> request.chunking_strategy,
     screenshot |-> request.screenshot]

\* perform_crawl: cache_key of a request
CacheKeyOf(request) == generate_cache_key(request.url, cache_params(request))

------------------------------------------------------------------------------
(* Result normaliser *)

\* [Op(x) for x in seq]
MapSeq(Op(_), seq) == [i \in 1..Len(seq) |-> Op(seq[i])]

AllStr(seq) == \A i \in 1..Len(seq) : isinstance_str(seq[i])

\* a mutation: "url" tried before "href"
LinkUrl_UrlFirst(link) ==
    PyOr(DictGet(link, "url"),
         PyOr(DictGet(link, "href"),
              PyOr(DictGet(link, "link"), DictGet(link, "src"))))

\* link.get("href") or link.get("url") or link.get("link") or link.get("src")
LinkUrl(link) ==
    PyOr(DictGet(link, "href"),
         PyOr(DictGet(link, "url"),
              PyOr(DictGet(link, "link"), DictGet(link, "src"))))

\* perform_crawl, first pass over internal + external links
ProcessLink(link) ==
    IF isinstance_dict(link)
    THEN IF Truthy(LinkUrl(link))
         THEN PyStr(str(LinkUrl(link)))
         ELSE PyStr(str(link))
    ELSE IF isinstance_str(link) THEN link ELSE PyStr(str(link))

\* perform_crawl, "final conversion" pass and the str() pass after it
FinalLink(item) ==
    LET once == IF isinstance_dict(item)
                THEN IF Truthy(LinkUrl(item))
                     THEN PyStr(str(LinkUrl(item)))
                     ELSE PyStr(str(item))
                ELSE PyStr(str(item))
    IN PyStr(str(once))

\* result.links -> the list of link partitions the loop walks
LinksOf(result) ==
    IF result.links_is_dict
    THEN result.links.internal \o result.links.external
    ELSE <<>>

\* perform_crawl: final_links_list
final_links_list(result) ==
    MapSeq(FinalLink, MapSeq(ProcessLink, LinksOf(result)))

\* perform_crawl: img.get("src", img.get("url", str(img))) / str(img)
MediaUrl(img) ==
    IF isinstance_dict(img)
    THEN DictGetDefault(img, "src", DictGetDefault(img, "url", PyStr(str(img))))
    ELSE PyStr(str(img))

\* perform_crawl: markdown_content
markdown_content(result) ==
    CASE result.markdown.kind = "obj" ->
            IF result.markdown.raw # <<>> THEN result.markdown.raw
            ELSE result.markdown.fit
      [] result.markdown.kind = "str" -> result.markdown.raw
      [] OTHER -> <<>>

\* perform_crawl: html_content
html_content(result) ==
    IF result.cleaned_html # <<>> THEN result.cleaned_html ELSE result.html

MetadataKeys == {"title", "description", "keywords", "language"}

\* perform_crawl: the four metadata fields, defaulted when absent
MetadataOf(result) ==
    [k \in MetadataKeys |->
        IF k \in DOMAIN result.metadata THEN result.metadata[k]
        ELSE IF k = "keywords" THEN "[]" ELSE ""]

\* perform_crawl: response_data
response_data(request, result, utcnow) ==
    [url |-> request.url,
     markdown |-> markdown_content(result),
     html |-> html_content(result),
     links |-> final_links_list(result),
     media |-> [images |-> MapSeq(MediaUrl, result.media.images),
                videos |-> MapSeq(MediaUrl, result.media.videos)],
     metadata |-> MetadataOf(result),
     screenshot |-> IF request.screenshot THEN result.screenshot ELSE "None",
     timestamp |-> utcnow]

\* CrawlResponse.convert_links_to_strings (field_validator, mode='before')
convert_links_to_strings(v) ==
    LET one(link) ==
            IF isinstance_dict(link)
            THEN IF Truthy(LinkUrl(link))
                 THEN PyStr(str(LinkUrl(link)))
                 ELSE PyStr(str(link))
            ELSE IF isinstance_str(link) THEN link ELSE PyStr(str(link))
    IN MapSeq(one, v)

\* CrawlResponse(**data): the links validator, then the field types;
\* media: Dict[str, List[str]] admits only str elements
CrawlResponse(data) ==
    LET links == convert_links_to_strings(data.links)
    IN IF AllStr(links) /\ AllStr(data.media.images) /\ AllStr(data.media.videos)
       THEN [ok |-> TRUE, value |-> [data EXCEPT !.links = links]]
       ELSE [ok |-> FALSE, value |-> data]

\* perform_crawl, cache hit: the links of the cached dict rewritten in place
CachedLink(link) ==
    IF isinstance_dict(link)
    THEN IF Truthy(LinkUrl(link))
         THEN PyStr(str(LinkUrl(link)))
         ELSE PyStr(str(link))
    ELSE PyStr(str(link))

\* a mutation: the timestamp taken from the clock at the hit
HitResult_Restamped(cached_result) ==
    IF cached_result.links # <<>>
    THEN [cached_result EXCEPT
            !.links = MapSeq(LAMBDA l : PyStr(str(l)),
                             MapSeq(CachedLink, cached_result.links)),
            !.timestamp = now]
    ELSE [cached_result EXCEPT !.timestamp = now]

\* perform_crawl, cache hit: the cached dict with its links rewritten
HitResult(cached_result) ==
    IF cached_result.links # <<>>
    THEN [cached_result EXCEPT
            !.links = MapSeq(LAMBDA l : PyStr(str(l)),
                             MapSeq(CachedLink, cached_result.links))]
    ELSE cached_result

\* json.dumps / json.loads of a result dict: every value of the model is
\* JSON-native (str, int, None, list, dict with str keys)
json_dumps(result) == [json |-> result]
json_loads(text) == text.json

------------------------------------------------------------------------------
(* Executor results (crawler.arun), old cache entries, service inputs *)

Str(tok) == PyStr(<<tok>>)

ExecResult(internal, external, images, videos) ==
    [raised |-> FALSE, success |-> TRUE, error_message |-> <<>>,
     links_is_dict |-> TRUE,
     links |-> [internal |-> internal, external |-> external],
     media |-> [images |-> images, videos |-> videos],
     markdown |-> [kind |-> "obj", raw |-> <<"# page">>, fit |-> <<"page">>],
     cleaned_html |-> <<"<p>page</p>">>, html |-> <<"<html>page</html>">>,
     metadata |-> [k \in {"title"} |-> "Page"],
     screenshot |-> "None"]

ExecFailure == [ExecResult(<<>>, <<>>, <<>>, <<>>) EXCEPT
                   !.success = FALSE, !.error_message = <<"net::ERR_TIMED_OUT">>]

ExecRaised == [ExecResult(<<>>, <<>>, <<>>, <<>>) EXCEPT
                  !.raised = TRUE, !.success = FALSE,
                  !.error_message = <<"browser closed">>]

\* links as Crawl4AI reports them, media with string sources
RawDictLinks ==
    ExecResult(<<PyDict(<<Item("href", Str("http://a.example/x")),
                          Item("text", Str("x"))>>)>>,
               <<Str("http://ext.example/")>>,
               <<PyDict(<<Item("src", Str("http://a.example/i.png"))>>)>>,
               <<>>)

\* an image whose src is not a string
RawOddMedia ==
    ExecResult(<<Str("http://a.example/y")>>, <<>>,
               <<PyDict(<<Item("src", PyNone), Item("alt", Str("logo"))>>)>>,
               <<>>)

ExecOutcomes == {RawDictLinks, RawOddMedia, ExecFailure, ExecRaised}

\* a result dict as an older version of the service stored it
OldEntry(links, images) ==
    [url |-> <<"http://a.example/">>, markdown |-> <<"# old">>,
     html |-> <<"<p>old</p>">>, links |-> links,
     media |-> [images |-> images, videos |-> <<>>],
     metadata |-> [k \in MetadataKeys |-> ""],
     screenshot |-> "None", timestamp |-> 0]

OldEntries ==
    { OldEntry(<<PyDict(<<Item("href", Str("http://a.example/old"))>>)>>, <<>>),
      OldEntry(<<Str("http://a.example/old")>>,
               <<PyDict(<<Item("src", Str("http://a.example/o.png"))>>)>>) }

ServiceRequests ==
    { CrawlRequest(u, "auto", "markdown", FALSE, DefaultOther) : u \in Urls }

DefaultTTL == 86400       \* set_cached_result(..., ttl: int = 86400)
MaxBatchUrls == 50        \* batch_crawl: len(request.urls) > 50
TickSeconds == 43200      \* seconds of one tick of the clock

None == [none |-> TRUE]

NoReply == [op |-> "none"]

Slots == {"http", "bg"}

IdleCall == [pc |-> "idle"]

\* the value of a module global before the module is imported
NotImported == [t |-> "unbound", s |-> <<>>, n |-> 0, d |-> <<>>]

------------------------------------------------------------------------------
(* Result cache *)

\* a mutation: SET NX, a key that is present keeps its entry
Setex_KeepFirst(st, key, ttl, value) ==
    IF key \in DOMAIN st THEN st
    ELSE [k \in DOMAIN st \cup {key} |->
            IF k = key THEN [value |-> value, ttl |-> ttl] ELSE st[k]]

\* the store after SETEX key ttl value
Setex(st, key, ttl, value) ==
    [k \in DOMAIN st \cup {key} |->
        IF k = key THEN [value |-> value, ttl |-> ttl] ELSE st[k]]

\* a mutation: the value of the key blanked, the key kept
Del_Blank(st, key) ==
    [k \in DOMAIN st |->
        IF k = key THEN [st[k] EXCEPT !.value = json_dumps(None)] ELSE st[k]]

\* the store after DEL key
Del(st, key) == [k \in DOMAIN st \ {key} |-> st[k]]

\* a mutation: the GET left out, every read a miss
get_cached_result_Miss(cache_key) == [raised |-> FALSE, value |-> None]

\* a mutation: the try/except around the GET left out
get_cached_result_NoTry(cache_key) ==
    IF redis_client = "None" THEN [raised |-> FALSE, value |-> None]
    ELSE IF ~storeUp THEN [raised |-> TRUE, value |-> None]
    ELSE IF cache_key \in DOMAIN store
         THEN [raised |-> FALSE, value |-> json_loads(store[cache_key].value)]
         ELSE [raised |-> FALSE, value |-> None]

\* get_cached_result: None without a handle, None when the GET fails
get_cached_result(cache_key) ==
    IF redis_client = "None" THEN [raised |-> FALSE, value |-> None]
    ELSE IF ~storeUp THEN [raised |-> FALSE, value |-> None]
    ELSE IF cache_key \in DOMAIN store
         THEN [raised |-> FALSE, value |-> json_loads(store[cache_key].value)]
         ELSE [raised |-> FALSE, value |-> None]

\* a mutation: the ttl argument ignored, the key stored for an hour
set_cached_result_Hour(cache_key, result, ttl) ==
    IF redis_client = "None" THEN [raised |-> FALSE, store |-> store]
    ELSE IF ~storeUp THEN [raised |-> FALSE, store |-> store]
    ELSE [raised |-> FALSE,
          store |-> Setex(store, cache_key, 3600, json_dumps(result))]

\* set_cached_result: nothing without a handle, nothing when the SETEX fails
set_cached_result(cache_key, result, ttl) ==
    IF redis_client = "None" THEN [raised |-> FALSE, store |-> store]
    ELSE IF ~storeUp THEN [raised |-> FALSE, store |-> store]
    ELSE [raised |-> FALSE,
          store |-> Setex(store, cache_key, ttl, json_dumps(result))]

------------------------------------------------------------------------------
(* Startup and the environment *)

\* a mutation: the handle made by from_url kept when ping fails
startup_event_KeepHandle ==
    /\ startup = "pending"
    /\ startup' = IF storeUp THEN "ok" ELSE "failed"
    /\ redis_client' = "client"
    /\ last' = NoReply
    /\ UNCHANGED <<storeUp, store, now, call, bgTasks, issued, probe, compressor>>

\* startup_event: from_url, then ping; the handle is dropped when ping fails
startup_event ==
    /\ startup = "pending"
    /\ startup' = IF storeUp THEN "ok" ELSE "failed"
    /\ redis_client' = IF storeUp THEN "client" ELSE "None"
    /\ last' = NoReply
    /\ UNCHANGED <<storeUp, store, now, call, bgTasks, issued, probe, compressor>>

Serving == startup # "pending"

\* the Redis server becomes unreachable
StoreFails ==
    /\ storeUp
    /\ storeUp' = FALSE
    /\ last' = NoReply
    /\ UNCHANGED <<startup, redis_client, store, now, call, bgTasks, issued,
                  probe, compressor>>

\* the Redis server becomes reachable again
StoreRecovers ==
    /\ ~storeUp
    /\ storeUp' = TRUE
    /\ last' = NoReply
    /\ UNCHANGED <<startup, redis_client, store, now, call, bgTasks, issued,
                  probe, compressor>>

\* time passes: Redis counts the TTLs down and drops the expired keys
Tick ==
    /\ now < MaxTime
    /\ now' = now + 1
    /\ store' = [k \in {x \in DOMAIN store : store[x].ttl > TickSeconds} |->
                    [store[k] EXCEPT !.ttl = @ - TickSeconds]]
    /\ last' = NoReply
    /\ UNCHANGED <<startup, redis_client, storeUp, call, bgTasks, issued,
                  probe, compressor>>

------------------------------------------------------------------------------
(* perform_crawl *)

\* a mutation: the cached result ignored
IsHit_Never(cached_result) == FALSE

\* perform_crawl: `if cached_result:`
IsHit(cached_result) == cached_result # None

\* a mutation: the message of the executor left out of the error
ErrorDetail_Generic(result) == <<"Internal Server Error">>

\* perform_crawl: detail=str(e) of the HTTPException its `except Exception`
\* raises; e is the fault of the executor, or the HTTPException raised for a
\* non-success result, whose text is "<status_code>: <detail>"
ErrorDetail(result) ==
    IF result.raised THEN result.error_message
    ELSE <<"500: ", "Crawl failed: ">> \o result.error_message

\* how a perform_crawl invocation ended
CallEnd(s, c, status, error, returned, wrote) ==
    [op |-> "perform_crawl", slot |-> s, request |-> c.request,
     cache_key |-> c.cache_key, handle |-> redis_client,
     upAtRead |-> c.upAtRead, upAtWrite |-> storeUp,
     cached |-> c.cached_result, executed |-> c.executed, result |-> c.result,
     wrote |-> wrote,
     replaced |-> IF wrote /\ c.cache_key \in DOMAIN store
                  THEN json_loads(store[c.cache_key].value) ELSE None,
     status |-> status, error |-> error,
     detail |-> IF error \in {"executor_fault", "executor_failure"}
                THEN ErrorDetail(c.result) ELSE <<>>,
     returned |-> returned, time |-> now]

\* Starlette runs the tasks of a response one after the other; a task that
\* raises ends the run, the tasks behind it are not started
AfterTask(s, status, wrote) ==
    /\ bgTasks' = IF s = "bg" /\ status # 200 THEN <<>> ELSE bgTasks
    /\ issued' = IF s = "bg" /\ status = 200 /\ wrote
                 THEN [j \in DOMAIN issued |->
                          IF j = call[s].cache_key THEN "cached" ELSE issued[j]]
                 ELSE issued

\* perform_crawl up to the reply of `await get_cached_result(cache_key)`
Lookup(s, request) ==
    LET got == get_cached_result(CacheKeyOf(request))
    IN /\ call[s].pc = "idle"
       /\ call' = [call EXCEPT ![s] =
                     [pc |-> "looked", request |-> request,
                      cache_key |-> CacheKeyOf(request),
                      raised |-> got.raised, cached_result |-> got.value,
                      upAtRead |-> storeUp, executed |-> FALSE,
                      result |-> None]]

\* perform_crawl, `if cached_result:` taken: rewrite the links, validate, return
CacheHit(s) ==
    LET c == call[s]
        resp == CrawlResponse(HitResult(c.cached_result))
        status == IF resp.ok THEN 200 ELSE 500
    IN /\ c.pc = "looked"
       /\ ~c.raised
       /\ IsHit(c.cached_result)
       /\ call' = [call EXCEPT ![s] = IdleCall]
       /\ last' = CallEnd(s, c, status,
                          IF resp.ok THEN "none" ELSE "validation",
                          IF resp.ok THEN resp.value ELSE None, FALSE)
       /\ store' = store
       /\ AfterTask(s, status, FALSE)
       /\ UNCHANGED <<startup, redis_client, storeUp, now, probe, compressor>>

\* perform_crawl, cache miss: the executor is configured and arun is awaited
CacheMiss(s) ==
    LET c == call[s]
    IN /\ c.pc = "looked"
       /\ c.raised \/ ~IsHit(c.cached_result)
       /\ IF c.raised
          THEN /\ call' = [call EXCEPT ![s] = IdleCall]
               /\ last' = CallEnd(s, c, 500, "cache", None, FALSE)
               /\ store' = store
               /\ AfterTask(s, 500, FALSE)
          ELSE /\ call' = [call EXCEPT ![s].pc = "crawling",
                                       ![s].executed = TRUE]
               /\ last' = NoReply
               /\ UNCHANGED <<store, bgTasks, issued>>
       /\ UNCHANGED <<startup, redis_client, storeUp, now, probe, compressor>>

\* perform_crawl from the return of arun: failure, or normalise, cache, return
CrawlDone(s, result) ==
    LET c == [call[s] EXCEPT !.result = result]
        data == response_data(c.request, result, now)
        w == set_cached_result(c.cache_key, data, DefaultTTL)
        resp == CrawlResponse(data)
        good == ~result.raised /\ result.success
        status == IF good /\ ~w.raised /\ resp.ok THEN 200 ELSE 500
        error == IF result.raised THEN "executor_fault"
                 ELSE IF ~result.success THEN "executor_failure"
                 ELSE IF w.raised THEN "cache"
                 ELSE IF ~resp.ok THEN "validation" ELSE "none"
    IN /\ call[s].pc = "crawling"
       /\ call' = [call EXCEPT ![s] = IdleCall]
       /\ store' = IF good THEN w.store ELSE store
       /\ last' = CallEnd(s, c, status, error,
                          IF status = 200 THEN resp.value ELSE None,
                          good /\ store' # store)
       /\ AfterTask(s, status, good /\ store' # store)
       /\ UNCHANGED <<startup, redis_client, storeUp, now, probe, compressor>>

------------------------------------------------------------------------------
(* Endpoints *)

\* POST /crawl
crawl_url(request) ==
    /\ Serving
    /\ Lookup("http", request)
    /\ last' = NoReply
    /\ UNCHANGED <<startup, redis_client, storeUp, store, now, bgTasks,
                  issued, probe, compressor>>

\* the first background task of the batch starts after the response was sent
RunBackgroundTask ==
    /\ bgTasks # <<>>
    /\ Lookup("bg", Head(bgTasks))
    /\ bgTasks' = Tail(bgTasks)
    /\ last' = NoReply
    /\ UNCHANGED <<startup, redis_client, storeUp, store, now, issued, probe, compressor>>

\* a mutation: the limit applied one URL early
BatchTooLarge_OffByOne(urls) == Len(urls) >= MaxBatchUrls

\* batch_crawl: len(request.urls) > 50
BatchTooLarge(urls) == Len(urls) > MaxBatchUrls

BatchCrawlRequest(urls, extraction, chunking, screenshot, timeout) ==
    [urls |-> urls, extraction_strategy |-> extraction,
     chunking_strategy |-> chunking, screenshot |-> screenshot,
     timeout |-> timeout]

\* batch_crawl: the CrawlRequest built for the i-th URL
BatchItem(request, i) ==
    CrawlRequest(request.urls[i], request.extraction_strategy,
                 request.chunking_strategy, request.screenshot,
                 [DefaultOther EXCEPT !.timeout = request.timeout])

\* a mutation: the job id is the bare digest, without the namespace tag
BatchJob_BareDigest(request, i) ==
    [url |-> request.urls[i],
     job_id |-> Tail(generate_cache_key(request.urls[i], cache_params(request)))]

\* batch_crawl: the job entry of the i-th URL
BatchJob(request, i) ==
    [url |-> request.urls[i],
     job_id |-> generate_cache_key(request.urls[i], cache_params(request))]

\* a mutation: the handler starts the crawl of the first URL itself before
\* it answers
batch_crawl_Inline(request) ==
    LET n == Len(request.urls)
        jobs == [i \in 1..n |-> BatchJob(request, i)]
        tasks == [i \in 1..n |-> BatchItem(request, i)]
    IN /\ Serving
       /\ bgTasks = <<>>
       /\ call["bg"].pc = "idle"
       /\ IF BatchTooLarge(request.urls)
          THEN /\ last' = [op |-> "batch_crawl", request |-> request,
                           status |-> 400, jobs |-> <<>>, scheduled |-> <<>>]
               /\ UNCHANGED <<bgTasks, issued, call>>
          ELSE /\ last' = [op |-> "batch_crawl", request |-> request,
                           status |-> 200, jobs |-> jobs, scheduled |-> tasks]
               /\ IF n = 0
                  THEN UNCHANGED <<bgTasks, call>>
                  ELSE Lookup("bg", tasks[1]) /\ bgTasks' = Tail(tasks)
               /\ issued' = [j \in DOMAIN issued \cup {jobs[i].job_id : i \in 1..n}
                               |-> IF j \in DOMAIN issued THEN issued[j]
                                   ELSE "scheduled"]
       /\ UNCHANGED <<startup, redis_client, storeUp, store, now, probe, compressor>>

\* POST /crawl/batch
batch_crawl(request) ==
    LET n == Len(request.urls)
        jobs == [i \in 1..n |-> BatchJob(request, i)]
        tasks == [i \in 1..n |-> BatchItem(request, i)]
    IN /\ Serving
       /\ bgTasks = <<>>
       /\ call["bg"].pc = "idle"
       /\ IF BatchTooLarge(request.urls)
          THEN /\ last' = [op |-> "batch_crawl", request |-> request,
                           status |-> 400, jobs |-> <<>>, scheduled |-> <<>>]
               /\ UNCHANGED <<bgTasks, issued>>
          ELSE /\ last' = [op |-> "batch_crawl", request |-> request,
                           status |-> 200, jobs |-> jobs, scheduled |-> tasks]
               /\ bgTasks' = tasks
               /\ issued' = [j \in DOMAIN issued \cup {jobs[i].job_id : i \in 1..n}
                               |-> IF j \in DOMAIN issued THEN issued[j]
                                   ELSE "scheduled"]
       /\ UNCHANGED <<startup, redis_client, storeUp, store, now, call, probe, compressor>>

\* GET /result/{job_id}
get_result(job_id) ==
    LET key == <<"crawl:">> \o job_id
        got == get_cached_result(key)
        found == ~got.raised /\ got.value # None
    IN /\ Serving
       /\ last' = [op |-> "get_result", job_id |-> job_id, key |-> key,
                   handle |-> redis_client, up |-> storeUp,
                   issued |-> IF job_id \in DOMAIN issued THEN issued[job_id]
                              ELSE "no",
                   entry |-> IF job_id \in DOMAIN store
                             THEN json_loads(store[job_id].value) ELSE None,
                   status |-> IF got.raised THEN 500
                              ELSE IF found THEN 200 ELSE 404,
                   body |-> IF found THEN got.value ELSE None]
       /\ UNCHANGED <<startup, redis_client, storeUp, store, now, call, bgTasks,
                      issued, probe, compressor>>

\* DELETE /cache/{job_id}
clear_cache(job_id) ==
    LET key == <<"crawl:">> \o job_id
        status == IF redis_client = "None" THEN 503
                  ELSE IF ~storeUp THEN 500 ELSE 200
        deleted == status = 200 /\ key \in DOMAIN store
    IN /\ Serving
       /\ store' = IF deleted THEN Del(store, key) ELSE store
       /\ last' = [op |-> "clear_cache", job_id |-> job_id, key |-> key,
                   handle |-> redis_client, up |-> storeUp, status |-> status,
                   body |-> IF status # 200 THEN "error"
                            ELSE IF deleted THEN "success" ELSE "not_found"]
       /\ UNCHANGED <<startup, redis_client, storeUp, now, call, bgTasks,
                      issued, probe, compressor>>

\* a mutation: the ping left out, the handle alone decides
redis_ok_NoPing == redis_client # "None"

\* health_check: redis_ok, the handle is set and ping answered
redis_ok == redis_client # "None" /\ storeUp

\* GET /health
health_check ==
    /\ Serving
    /\ last' = [op |-> "health_check", up |-> storeUp, probe |-> startup,
                status |-> 200,
                body |-> [status |-> IF redis_ok THEN "healthy" ELSE "degraded",
                          timestamp |-> now, redis_connected |-> redis_ok]]
    /\ UNCHANGED <<startup, redis_client, storeUp, store, now, call, bgTasks,
                   issued, probe, compressor>>

------------------------------------------------------------------------------
(* The service *)

\* job ids a client may present: those the batch endpoint returns, and the
\* bare digests
JobIds ==
    {CacheKeyOf(r) : r \in ServiceRequests}
        \cup {Tail(CacheKeyOf(r)) : r \in ServiceRequests}

SmallBatches ==
    { BatchCrawlRequest(urls, "auto", "markdown", FALSE, 30) :
        urls \in UNION {[1..n -> Urls] : n \in 0..SmallBatch} }

\* the cache as the process finds it: empty, or holding an entry of an older
\* version under the key of the first URL
InitialStores ==
    {<<>>} \cup
    { Setex(<<>>, CacheKeyOf(CrawlRequest(<<"http://a.example/">>, "auto",
                                           "markdown", FALSE, DefaultOther)),
            TickSeconds, json_dumps(e)) : e \in OldEntries }

Init ==
    /\ startup = "pending"
    /\ redis_client = "None"
    /\ storeUp \in BOOLEAN
    /\ store \in InitialStores
    /\ now = 0
    /\ call = [s \in Slots |-> IdleCall]
    /\ bgTasks = <<>>
    /\ issued = <<>>
    /\ last = NoReply
    /\ probe = [op |-> "none"]
    /\ OPENROUTER_API_KEY = NotImported
    /\ compressing = IdleCall

\* one request at a time, under every change of the environment
Next ==
    \/ startup_event
    \/ StoreFails
    \/ StoreRecovers
    \/ Tick
    \/ \E r \in ServiceRequests : crawl_url(r)
    \/ CacheHit("http")
    \/ CacheMiss("http")
    \/ \E r \in ExecOutcomes : CrawlDone("http", r)
    \/ \E j \in JobIds : get_result(j)
    \/ \E j \in JobIds : clear_cache(j)
    \/ health_check

Spec == Init /\ [][Next]_vars

\* batches whose background crawls run concurrently with POST /crawl
NextBatch ==
    \/ startup_event
    \/ \E r \in ServiceRequests : crawl_url(r)
    \/ \E b \in SmallBatches : batch_crawl(b)
    \/ RunBackgroundTask
    \/ \E s \in Slots : CacheHit(s)
    \/ \E s \in Slots : CacheMiss(s)
    \/ \E s \in Slots, r \in ExecOutcomes : CrawlDone(s, r)
    \/ \E j \in JobIds : get_result(j)

SpecBatch == Init /\ [][NextBatch]_vars

\* batches at the limit: one URL below it, at it, one above it
LimitBatches ==
    { BatchCrawlRequest(
          [i \in 1..n |-> IF i % 2 = 1 THEN <<"http://a.example/">>
                          ELSE <<"http://b.example/">>],
          "auto", "markdown", FALSE, 30) :
        n \in {MaxBatchUrls - 1, MaxBatchUrls, MaxBatchUrls + 1} }

NextLimit ==
    \/ startup_event
    \/ \E b \in SmallBatches \cup LimitBatches : batch_crawl(b)
    \/ RunBackgroundTask
    \/ CacheHit("bg")
    \/ CacheMiss("bg")
    \/ \E r \in ExecOutcomes : CrawlDone("bg", r)

SpecLimit == Init /\ [][NextLimit]_vars

------------------------------------------------------------------------------
(* The pure functions applied to drawn inputs *)

InitPure ==
    /\ startup = "pending"
    /\ redis_client = "None"
    /\ storeUp = TRUE
    /\ store = <<>>
    /\ now = 0
    /\ call = [s \in Slots |-> IdleCall]
    /\ bgTasks = <<>>
    /\ issued = <<>>
    /\ last = NoReply
    /\ probe = [op |-> "none"]
    /\ OPENROUTER_API_KEY = NotImported
    /\ compressing = IdleCall

Frame == UNCHANGED <<startup, redis_client, storeUp, store, now, call, bgTasks,
                     issued, last, compressor>>

\* perform_crawl computes the keys of two requests
KeysOfTwo(r1, r2) ==
    /\ probe.op = "none"
    /\ probe' = [op |-> "perform_crawl", r1 |-> r1, r2 |-> r2,
                 k1 |-> CacheKeyOf(r1), k2 |-> CacheKeyOf(r2)]
    /\ Frame

KeyBatches ==
    { BatchCrawlRequest(<<u>>, e, c, s, t) :
        u \in Urls, e \in ExtractionStrategies, c \in ChunkingStrategies,
        s \in BOOLEAN, t \in {30, 120} }

\* batch_crawl computes a job id, perform_crawl the key of a request
JobIdAndKey(b, r2) ==
    /\ probe.op = "none"
    /\ probe' = [op |-> "batch_crawl", r1 |-> BatchItem(b, 1), r2 |-> r2,
                 k1 |-> BatchJob(b, 1).job_id, k2 |-> CacheKeyOf(r2)]
    /\ Frame

NextKey ==
    \/ probe.op = "none" /\ \E r1, r2 \in AllRequests : KeysOfTwo(r1, r2)
    \/ probe.op = "none"
          /\ \E b \in KeyBatches, r2 \in AllRequests : JobIdAndKey(b, r2)

SpecKey == InitPure /\ [][NextKey]_vars

LinkShapes ==
    { Str("http://c.example/"),
      PyDict(<<Item("href", Str("http://a.example/1"))>>),
      PyDict(<<Item("url", Str("http://u.example/")),
               Item("href", Str("http://h.example/"))>>),
      PyDict(<<Item("link", Str("http://l.example/")),
               Item("src", Str("http://s.example/"))>>),
      PyDict(<<Item("href", PyStr(<<>>)), Item("src", PyInt(5))>>),
      PyDict(<<Item("href", PyNone)>>),
      PyDict(<<Item("unexpected", Str("x"))>>),
      PyDict(<<>>),
      PyNone,
      PyInt(7) }

LinkLists(n) == UNION {[1..k -> LinkShapes] : k \in 0..n}

MaxExternal == 1    \* elements of the external partition in the checks

ProbeRequest ==
    CrawlRequest(<<"http://a.example/">>, "auto", "markdown", FALSE, DefaultOther)

\* perform_crawl normalises the links of an executor result
NormalizeFresh(internal, external) ==
    LET result == ExecResult(internal, external, <<>>, <<>>)
    IN /\ probe.op = "none"
       /\ probe' = [op |-> "fresh", internal |-> internal,
                    external |-> external,
                    data |-> response_data(ProbeRequest, result, 0)]
       /\ Frame

NextNorm ==
    /\ probe.op = "none"
    /\ \E i \in LinkLists(MaxLinks), e \in LinkLists(MaxExternal) :
          NormalizeFresh(i, e)

SpecNorm == InitPure /\ [][NextNorm]_vars

------------------------------------------------------------------------------
(* Text compressor (proxy-service/compressor.py) *)

\* AsyncOpenAI(base_url=..., api_key=...): max_retries is left at the default
\* of the openai client, which re-sends a failed request at most twice
DEFAULT_MAX_RETRIES == 2

OPENROUTER_MODEL == <<"google/gemini-2.0-flash-lite-001">>

COMPRESSION_PROMPT == <<"Process the following content according to the user's instruction.">>

BaseUrl == <<"https://openrouter.ai/api/v1">>

\* os.getenv("OPENROUTER_API_KEY"): unset, set to the empty string, set
EnvKeys == {PyNone, PyStr(<<>>), PyStr(<<"sk-or-v1-0">>)}

Contents == {<<"<html>a long page</html>">>, <<"plain text">>, <<>>}

Instructions == {<<"summarize briefly">>, <<"just urls and titles">>}

\* completions as the API returns them: one choice or two, the text of a
\* choice with or without surrounding whitespace
ChoiceTexts == {PyStr(<<"short">>), PyStr(<<" ", "padded", "\n">>)}
Responses == UNION {[1..n -> ChoiceTexts] : n \in 1..2}

\* the module is imported: the key is read from the environment, once
import_compressor(env_key) ==
    /\ OPENROUTER_API_KEY = NotImported
    /\ OPENROUTER_API_KEY' = env_key
    /\ last' = NoReply
    /\ UNCHANGED <<startup, redis_client, storeUp, store, now, call, bgTasks,
                   issued, probe, compressing>>

\* get_client: ValueError without a key, else a client for OpenRouter
get_client ==
    IF ~Truthy(OPENROUTER_API_KEY)
    THEN [raised |-> TRUE,
          error |-> <<"ValueError: ",
                      "OPENROUTER_API_KEY environment variable not set">>]
    ELSE [raised |-> FALSE,
          client |-> [base_url |-> BaseUrl, api_key |-> OPENROUTER_API_KEY.s]]

\* compress: the arguments of client.chat.completions.create
CompletionRequest(content, instruction) ==
    [model |-> OPENROUTER_MODEL,
     messages |-> <<[role |-> "system", content |-> COMPRESSION_PROMPT],
                    [role |-> "user",
                     content |-> <<"Instruction: ">> \o instruction
                                   \o <<"\n\nContent:\n">> \o content]>>]

\* how a compress call ended
CompressEnd(c, outcome, error, response, value) ==
    [op |-> "compress", key |-> OPENROUTER_API_KEY, content |-> c.content,
     instruction |-> c.instruction, creates |-> c.creates, sent |-> c.sent,
     outcome |-> outcome, error |-> error, response |-> response,
     value |-> value]

\* compress up to `await client.chat.completions.create(...)`: the client is
\* built and the request goes out, or get_client raises
compress(content, instruction) ==
    LET request == CompletionRequest(content, instruction)
        c == [content |-> content, instruction |-> instruction,
              creates |-> 0, sent |-> <<>>]
    IN /\ OPENROUTER_API_KEY # NotImported
       /\ compressing.pc = "idle"
       /\ IF get_client.raised
          THEN /\ last' = CompressEnd(c, "raised", get_client.error, <<>>, None)
               /\ compressing' = compressing
          ELSE /\ compressing' = [pc |-> "awaiting", content |-> content,
                                  instruction |-> instruction, creates |-> 1,
                                  sent |-> <<request>>]
               /\ last' = NoReply
       /\ UNCHANGED <<startup, redis_client, storeUp, store, now, call,
                      bgTasks, issued, probe, OPENROUTER_API_KEY>>

\* the API answers the request: compress returns choices[0].message.content
ApiAnswers(response) ==
    /\ compressing.pc = "awaiting"
    /\ last' = CompressEnd(compressing, "returned", <<>>, response, response[1])
    /\ compressing' = IdleCall
    /\ UNCHANGED <<startup, redis_client, storeUp, store, now, call, bgTasks,
                   issued, probe, OPENROUTER_API_KEY>>

\* the request fails. The client was built without max_retries, so it re-sends
\* a request that failed with a connection error or a retryable status, up to
\* its default number of times; otherwise create raises and compress, which
\* catches nothing, raises to its caller
ApiFails(retryable) ==
    /\ compressing.pc = "awaiting"
    /\ IF retryable /\ Len(compressing.sent) <= DEFAULT_MAX_RETRIES
       THEN /\ compressing' = [compressing EXCEPT
                                 !.sent = Append(@, compressing.sent[1])]
            /\ last' = NoReply
       ELSE /\ last' = CompressEnd(compressing, "raised", <<"APIError">>,
                                   <<>>, None)
            /\ compressing' = IdleCall
    /\ UNCHANGED <<startup, redis_client, storeUp, store, now, call, bgTasks,
                   issued, probe, OPENROUTER_API_KEY>>

NextCompress ==
    \/ \E k \in EnvKeys : import_compressor(k)
    \/ \E c \in Contents, i \in Instructions : compress(c, i)
    \/ \E r \in Responses : ApiAnswers(r)
    \/ \E b \in BOOLEAN : ApiFails(b)

SpecCompress == InitPure /\ [][NextCompress]_vars

------------------------------------------------------------------------------
(* Claims *)

KeyFields(r) ==
    <<r.url, r.extraction_strategy, r.chunking_strategy, r.screenshot>>

\* C1: the cache key computed by perform_crawl, and the job id computed by
\* batch_crawl, is the same for two requests exactly when they agree on URL,
\* extraction strategy, chunking strategy and screenshot flag; timeout,
\* wait_for, js_code, css_selector and word_count_threshold do not enter it.
C1_KeyFromFourFields ==
    probe.op \in {"perform_crawl", "batch_crawl"} =>
        ((KeyFields(probe.r1) = KeyFields(probe.r2)) <=> (probe.k1 = probe.k2))

C1_Witness ==
    /\ probe.op = "batch_crawl"
    /\ KeyFields(probe.r1) = KeyFields(probe.r2)
    /\ probe.r1.timeout # probe.r2.timeout
    /\ probe.r1.css_selector # probe.r2.css_selector
    /\ probe.k1 = probe.k2

\* C2: a perform_crawl whose lookup returned an entry ends in its next step
\* without having invoked the executor and without a cache write: the store,
\* entries and TTLs, is the same before and after.
C2_HitLeavesCacheAlone ==
    [][\A s \in Slots :
          (/\ call[s].pc = "looked"
           /\ call[s].cached_result # None
           /\ call'[s] # call[s])
          => (/\ call'[s].pc = "idle"
              /\ store' = store
              /\ last'.op = "perform_crawl"
              /\ ~last'.executed
              /\ ~last'.wrote)]_vars

C2_Witness ==
    /\ last.op = "perform_crawl"
    /\ last.cached # None
    /\ last.status = 200
    /\ last.cache_key \in DOMAIN store
    /\ store[last.cache_key].ttl < DefaultTTL

GoodResult(r) == ~r.raised /\ r.success

\* C3: after a perform_crawl that missed the cache, whose executor run
\* succeeded and whose write found the store reachable, the store holds under
\* the request's key the normalised result with a TTL of 86400 s, and a result
\* returned to the caller is that value.
C3_SuccessfulCrawlCached ==
    (/\ last.op = "perform_crawl"
     /\ last.cached = None
     /\ last.executed
     /\ GoodResult(last.result)
     /\ last.handle = "client"
     /\ last.upAtWrite)
    => (/\ last.cache_key = <<"crawl:">> \o Tail(last.cache_key)
        /\ last.cache_key \in DOMAIN store
        /\ store[last.cache_key].ttl = 86400
        /\ json_loads(store[last.cache_key].value)
             = response_data(last.request, last.result, last.time)
        /\ (last.status = 200
              => last.returned = json_loads(store[last.cache_key].value)))

C3_Witness ==
    /\ last.op = "perform_crawl"
    /\ last.cached = None
    /\ GoodResult(last.result)
    /\ last.status = 200
    /\ last.wrote
    /\ store[last.cache_key].ttl = 86400

\* C4: GET /result/{job_id}, called with a job id that POST /crawl/batch
\* returned, after the background crawl of that URL completed with its entry
\* in the cache and while the entry is there and the store reachable, answers
\* 200 with the cached result.
C4_ResultByJobId ==
    (/\ last.op = "get_result"
     /\ last.issued = "cached"
     /\ last.entry # None
     /\ last.handle = "client"
     /\ last.up)
    => (last.status = 200 /\ last.body = last.entry)

C4_Witness ==
    /\ last.op = "get_result"
    /\ last.issued = "cached"
    /\ last.entry # None
    /\ last.handle = "client"
    /\ last.up

\* C5: with the store unreachable (no handle since startup, or the server not
\* answering at the call) the cache read is a miss and does not raise, the
\* cache write changes nothing and does not raise, and the crawl goes on to
\* the executor and returns the normalised result whenever the executor
\* succeeds and the result validates.
C5_CacheUnavailableDegrades ==
    /\ \A s \in Slots :
          (call[s].pc = "looked" /\ (redis_client = "None" \/ ~call[s].upAtRead))
          => (call[s].cached_result = None /\ ~call[s].raised)
    /\ (last.op = "perform_crawl" /\ (last.handle = "None" \/ ~last.upAtRead))
          => (last.cached = None /\ last.executed /\ last.error # "cache")
    /\ (last.op = "perform_crawl" /\ (last.handle = "None" \/ ~last.upAtWrite))
          => (~last.wrote /\ last.error # "cache")
    /\ (/\ last.op = "perform_crawl"
        /\ last.handle = "None" \/ (~last.upAtRead /\ ~last.upAtWrite)
        /\ GoodResult(last.result)
        /\ last.error # "validation")
          => (/\ last.status = 200
              /\ last.returned
                   = response_data(last.request, last.result, last.time))

C5_Witness ==
    /\ last.op = "perform_crawl"
    /\ last.handle = "client"
    /\ ~last.upAtRead
    /\ ~last.upAtWrite
    /\ last.cache_key \in DOMAIN store
    /\ last.status = 200

\* C6: DELETE /cache/{job_id} called while the store is unreachable answers
\* 503, whether the store was unreachable at startup or became so later.
C6_DeleteUnavailable503 ==
    (last.op = "clear_cache" /\ ~last.up) => last.status = 503

\* C7 as stated: GET /health answers 200 with "healthy" exactly when the store
\* is reachable at the call and "degraded" exactly when it is not.
C7_HealthFollowsStore ==
    last.op = "health_check" =>
        /\ last.status = 200
        /\ (last.body.status = "healthy") <=> last.up
        /\ (last.body.status = "degraded") <=> ~last.up

\* C7 amended: GET /health answers 200 with "healthy" exactly when the startup
\* probe succeeded and the store is reachable at the call, and with "degraded"
\* otherwise, also when the store has become reachable after a failed probe.
C7_HealthFollowsProbeAndStore ==
    last.op = "health_check" =>
        /\ last.status = 200
        /\ last.body.status \in {"healthy", "degraded"}
        /\ (last.body.status = "healthy") <=> (last.probe = "ok" /\ last.up)
        /\ last.body.redis_connected <=> (last.body.status = "healthy")

C7_Witness ==
    /\ last.op = "health_check"
    /\ last.probe = "failed"
    /\ last.up
    /\ last.body.status = "degraded"

\* C8: POST /crawl/batch with at most 50 URLs answers 200 with one job per
\* URL, in submission order, each with the key of its URL, and schedules one
\* crawl per URL; with more than 50 URLs it answers 400, returns no job id
\* and schedules nothing.
C8_BatchLimit ==
    last.op = "batch_crawl" =>
        LET urls == last.request.urls
        IN IF Len(urls) <= 50
           THEN /\ last.status = 200
                /\ Len(last.jobs) = Len(urls)
                /\ \A i \in 1..Len(urls) :
                      /\ last.jobs[i].url = urls[i]
                      /\ last.jobs[i].job_id
                           = <<"crawl:">> \o md5_hexdigest(urls[i] \o <<":">>
                               \o json_dumps_params(
                                    [extraction |-> last.request.extraction_strategy,
                                     chunking |-> last.request.chunking_strategy,
                                     screenshot |-> last.request.screenshot]))
                /\ Len(bgTasks) = Len(urls)
                /\ \A i \in 1..Len(urls) : bgTasks[i].url = urls[i]
           ELSE /\ last.status = 400
                /\ last.jobs = <<>>
                /\ bgTasks = <<>>
                /\ call["bg"].pc = "idle"

C8_Witness ==
    /\ last.op = "batch_crawl"
    /\ Len(last.request.urls) = 50
    /\ last.status = 200
    /\ Len(last.jobs) = 50
    /\ Len(bgTasks) = 50

LinkKeys == <<"href", "url", "link", "src">>

\* the first of href, url, link, src for which P holds in the mapping, 0 if none
FirstKey(m, P(_, _)) ==
    LET hits == {i \in 1..Len(LinkKeys) : P(m, LinkKeys[i])}
    IN IF hits = {} THEN 0 ELSE CHOOSE i \in hits : \A j \in hits : i <= j

ValueAt(m, k) == m.d[CHOOSE i \in 1..Len(m.d) : m.d[i].k = k].v

\* the rule of C9 as stated: the first key the mapping contains
StatedCoercion(e) ==
    IF e.t = "str" THEN e
    ELSE IF e.t = "dict" /\ FirstKey(e, HasKey) # 0
         THEN PyStr(str(ValueAt(e, LinkKeys[FirstKey(e, HasKey)])))
         ELSE PyStr(str(e))

HasTruthy(m, k) == HasKey(m, k) /\ Truthy(ValueAt(m, k))

\* the rule of C9 amended: the first key the mapping holds a non-empty value for
NonEmptyCoercion(e) ==
    IF e.t = "str" THEN e
    ELSE IF e.t = "dict" /\ FirstKey(e, HasTruthy) # 0
         THEN PyStr(str(ValueAt(e, LinkKeys[FirstKey(e, HasTruthy)])))
         ELSE PyStr(str(e))

\* C9 as stated: the links of a fresh result are the internal then the
\* external links, none dropped, a mapping giving the value of the first of
\* href, url, link, src it contains.
C9_LinksFirstKeyPresent ==
    probe.op = "fresh" =>
        /\ Len(probe.data.links) = Len(probe.internal) + Len(probe.external)
        /\ probe.data.links
             = MapSeq(StatedCoercion, probe.internal \o probe.external)

\* C9 amended: the links of a fresh result are the internal then the external
\* links, none dropped, all plain strings; a string is kept, a mapping gives
\* the value of the first of href, url, link, src whose value is non-empty
\* (truthy), as a string, and a mapping without such a key, or any other
\* shape, gives the text of the whole element.
C9_LinksFirstKeyNonEmpty ==
    probe.op = "fresh" =>
        /\ Len(probe.data.links) = Len(probe.internal) + Len(probe.external)
        /\ AllStr(probe.data.links)
        /\ probe.data.links
             = MapSeq(NonEmptyCoercion, probe.internal \o probe.external)

C9_Witness ==
    /\ probe.op = "fresh"
    /\ probe.internal = <<PyDict(<<Item("href", PyStr(<<>>)), Item("src", PyInt(5))>>),
                          PyDict(<<Item("unexpected", Str("x"))>>)>>
    /\ probe.external = <<PyDict(<<Item("url", Str("http://u.example/")),
                                   Item("href", Str("http://h.example/"))>>)>>
    /\ probe.data.links = <<Str("5"),
                            PyStr(<<"{", "'", "unexpected", "'", ": ",
                                    "'", "x", "'", "}">>),
                            Str("http://h.example/")>>

\* C10: a cache hit on an entry of an older schema returns a result whose
\* links and media elements are all plain strings, none dropped, and does not
\* fail.
C10_OldEntryHitNormalised ==
    (last.op = "perform_crawl" /\ last.cached \in OldEntries)
    => (/\ last.status = 200
        /\ AllStr(last.returned.links)
        /\ Len(last.returned.links) = Len(last.cached.links)
        /\ AllStr(last.returned.media.images)
        /\ Len(last.returned.media.images) = Len(last.cached.media.images)
        /\ AllStr(last.returned.media.videos))

\* the entries perform_crawl writes: the normalised result of a successful
\* executor run for a request of the service, stamped with the time of the crawl
WrittenEntries ==
    { response_data(r, x, t) :
        r \in ServiceRequests,
        x \in {y \in ExecOutcomes : GoodResult(y)},
        t \in 0..MaxTime }

\* C11: a perform_crawl that hits an entry written by a crawl that returned
\* its result answers 200 with a result equal in every field to the one that
\* crawl returned, which is the stored value; its timestamp is the stored
\* timestamp of the crawl, also when the clock has moved on since.
C11_CachedRoundTrip ==
    (/\ last.op = "perform_crawl"
     /\ last.cached \in WrittenEntries
     /\ CrawlResponse(last.cached).ok)
    => (/\ last.status = 200
        /\ ~last.executed
        /\ last.returned = CrawlResponse(last.cached).value
        /\ last.returned = last.cached
        /\ last.returned.timestamp = last.cached.timestamp)

C11_Witness ==
    /\ last.op = "perform_crawl"
    /\ last.cached \in WrittenEntries
    /\ last.status = 200
    /\ last.returned.links # <<>>
    /\ last.returned.media.images # <<>>
    /\ last.time > last.returned.timestamp

\* the text sub occurs in the text s
Contains(s, sub) ==
    \E i \in 0..(Len(s) - Len(sub)) : SubSeq(s, i + 1, i + Len(sub)) = sub

\* C12: the step in which the executor returns ends the perform_crawl
\* invocation, so the executor runs once per invocation; when it reported a
\* non-success result or raised a fault, the invocation ends with a 500 whose
\* detail contains the executor's message, returns no normalised result,
\* writes nothing, and the store, entries and TTLs, is as it was.
C12_ExecutorFailureSurfaces ==
    [][\A s \in Slots :
          (call[s].pc = "crawling" /\ call'[s] # call[s])
          => (/\ call'[s].pc = "idle"
              /\ last'.op = "perform_crawl"
              /\ last'.slot = s
              /\ ~GoodResult(last'.result)
                   => (/\ last'.status = 500
                       /\ last'.result.error_message # <<>>
                       /\ Contains(last'.detail, last'.result.error_message)
                       /\ last'.returned = None
                       /\ ~last'.wrote
                       /\ store' = store))]_vars

C12_Witness ==
    /\ last.op = "perform_crawl"
    /\ last.executed
    /\ last.result = ExecFailure
    /\ last.status = 500
    /\ last.handle = "client"
    /\ last.upAtWrite
    /\ last.cache_key \in DOMAIN store

\* C13 as stated: the value of an entry that a crawl wrote is the same after
\* every step that leaves the entry in the store.
C13_EntryReadOnly ==
    [][\A k \in DOMAIN store :
          (json_loads(store[k].value) \in WrittenEntries /\ k \in DOMAIN store')
          => store'[k].value = store[k].value]_vars

\* C13 amended: no step modifies an entry in place, and no read changes one;
\* an entry that stays in the store changes only by its TTL counting down, or
\* by being replaced as a whole, value and a fresh TTL of 86400 s, by the
\* write of a perform_crawl that missed the cache for that key (its lookup
\* found the store unreachable, or ran before the entry was there) and whose
\* executor run succeeded.
C13_ReplacedOnlyByMissedCrawl ==
    [][\A k \in DOMAIN store :
          (k \in DOMAIN store' /\ store'[k] # store[k])
          => \/ /\ now' > now
                /\ store'[k].value = store[k].value
                /\ store'[k].ttl < store[k].ttl
             \/ /\ last'.op = "perform_crawl"
                /\ last'.cache_key = k
                /\ last'.cached = None
                /\ last'.executed
                /\ GoodResult(last'.result)
                /\ last'.wrote
                /\ last'.replaced = json_loads(store[k].value)
                /\ store'[k]
                     = [value |-> json_dumps(response_data(last'.request,
                                                last'.result, last'.time)),
                        ttl |-> 86400]]_vars

C13_Witness ==
    /\ last.op = "perform_crawl"
    /\ last.replaced \in WrittenEntries
    /\ ~last.upAtRead
    /\ last.status = 200
    /\ json_loads(store[last.cache_key].value) # last.replaced
    /\ store[last.cache_key].ttl = 86400

\* C14: the job id that POST /crawl/batch returns for a URL is the cache key
\* of the request it schedules for that URL; the background perform_crawl
\* looks up under the key of its request, which is a job id the endpoint
\* returned, and a result it caches is stored under that job id.
C14_JobIdIsCacheKey ==
    /\ (last.op = "batch_crawl" /\ last.status = 200)
          => (/\ Len(bgTasks) = Len(last.jobs)
              /\ \A i \in 1..Len(last.jobs) :
                    /\ bgTasks[i].url = last.jobs[i].url
                    /\ last.jobs[i].job_id = CacheKeyOf(bgTasks[i]))
    /\ \A i \in 1..Len(bgTasks) : CacheKeyOf(bgTasks[i]) \in DOMAIN issued
    /\ call["bg"].pc # "idle"
          => (/\ call["bg"].cache_key = CacheKeyOf(call["bg"].request)
              /\ call["bg"].cache_key \in DOMAIN issued)
    /\ (last.op = "perform_crawl" /\ last.slot = "bg")
          => (/\ last.cache_key \in DOMAIN issued
              /\ last.wrote
                   => (/\ last.cache_key \in DOMAIN store
                       /\ json_loads(store[last.cache_key].value)
                            = response_data(last.request, last.result,
                                            last.time)))
    /\ probe.op = "batch_crawl" => probe.k1 = CacheKeyOf(probe.r1)

C14_Witness ==
    /\ last.op = "perform_crawl"
    /\ last.slot = "bg"
    /\ last.wrote
    /\ last.status = 200
    /\ last.cache_key \in DOMAIN issued
    /\ issued[last.cache_key] = "cached"
    /\ bgTasks # <<>>

\* C15: the step in which POST /crawl/batch answers 200 returns a job id for
\* every URL and leaves every crawl it scheduled waiting: no perform_crawl
\* invocation starts or advances in that step, none of the scheduled crawls
\* has looked up the cache or invoked the executor, and the store is
\* untouched; the answer is there before any of the crawls has an outcome.
C15_BatchFireAndForget ==
    [][(last'.op = "batch_crawl" /\ last'.status = 200)
          => (/\ Len(last'.jobs) = Len(last'.request.urls)
              /\ \A i \in 1..Len(last'.jobs) :
                    last'.jobs[i].url = last'.request.urls[i]
              /\ call' = call
              /\ call'["bg"].pc = "idle"
              /\ bgTasks' = last'.scheduled
              /\ Len(bgTasks') = Len(last'.request.urls)
              /\ store' = store)]_vars

C15_Witness ==
    /\ last.op = "batch_crawl"
    /\ last.status = 200
    /\ Len(last.jobs) = 2
    /\ bgTasks = last.scheduled
    /\ Len(bgTasks) = 2
    /\ call["bg"].pc = "idle"
    /\ call["http"].pc = "crawling"

\* C16: a compress call made without a key (unset or empty) ends with the
\* configuration error and has sent no request, although the import went
\* through; a call made with a key has sent exactly one completion request
\* when it ends, and when it returns, it returns the content of the first
\* choice of the response as it came.
C16_CompressOneRequest ==
    last.op = "compress" =>
        IF ~Truthy(last.key)
        THEN /\ last.outcome = "raised"
             /\ Contains(last.error, <<"OPENROUTER_API_KEY environment variable not set">>)
             /\ last.sent = <<>>
        ELSE /\ last.creates = 1
             /\ Len(last.sent) = 1
             /\ last.sent[1] = CompletionRequest(last.content, last.instruction)
             /\ last.outcome = "returned" => last.value = last.response[1]

\* C17: a perform_crawl whose lookup returned nothing goes on to the executor
\* whatever the other invocations are doing, also when one with the same key
\* is crawling; and when an invocation ends after a successful executor run
\* with the store reachable, the entry under its key is its own result with a
\* fresh TTL, whatever another invocation had written there in the meantime:
\* the last write wins.
C17_NoDeduplicationLastWriteWins ==
    [][/\ \A s \in Slots :
             (/\ call[s].pc = "looked"
              /\ ~call[s].raised
              /\ call[s].cached_result = None
              /\ call'[s] # call[s])
             => (call'[s].pc = "crawling" /\ call'[s].executed)
       /\ (/\ last'.op = "perform_crawl"
           /\ last'.executed
           /\ GoodResult(last'.result)
           /\ last'.handle = "client"
           /\ last'.upAtWrite)
          => (/\ last'.cache_key \in DOMAIN store'
              /\ store'[last'.cache_key]
                   = [value |-> json_dumps(response_data(last'.request,
                                              last'.result, last'.time)),
                      ttl |-> DefaultTTL])]_vars

\* two invocations with the same key both missed, both ran the executor and
\* both wrote; the entry is the result of the one that wrote last
C17_Witness ==
    /\ last.op = "perform_crawl"
    /\ last.cached = None
    /\ last.executed
    /\ last.wrote
    /\ last.upAtRead
    /\ last.replaced \in WrittenEntries
    /\ last.replaced # json_loads(store[last.cache_key].value)
    /\ json_loads(store[last.cache_key].value)
         = response_data(last.request, last.result, last.time)
    /\ \A s \in Slots : call[s].pc = "idle"

\* C18: an entry leaves the store only by expiry or by DELETE; a
\* perform_crawl that starts while the handle is set, the store reachable and
\* an entry present under its key gets that entry from its lookup; and an
\* invocation whose lookup returned an entry ends in its next step without
\* having invoked the executor, with a 200 and the entry as its result when
\* the entry is one that a crawl wrote and returned.
C18_HitWhileEntryLives ==
    [][/\ \A k \in DOMAIN store :
             k \notin DOMAIN store'
             => (now' > now \/ (last'.op = "clear_cache" /\ last'.key = k))
       /\ \A s \in Slots :
             (/\ call[s].pc = "idle"
              /\ call'[s].pc = "looked"
              /\ redis_client = "client"
              /\ storeUp
              /\ call'[s].cache_key \in DOMAIN store)
             => (/\ ~call'[s].raised
                 /\ call'[s].cached_result
                      = json_loads(store[call'[s].cache_key].value))
       /\ \A s \in Slots :
             (/\ call[s].pc = "looked"
              /\ call[s].cached_result # None
              /\ call'[s] # call[s])
             => (/\ call'[s].pc = "idle"
                 /\ last'.op = "perform_crawl"
                 /\ ~last'.executed
                 /\ (/\ call[s].cached_result \in WrittenEntries
                     /\ CrawlResponse(call[s].cached_result).ok)
                    => (/\ last'.status = 200
                        /\ last'.returned = call[s].cached_result))]_vars

C18_Witness ==
    /\ last.op = "perform_crawl"
    /\ last.handle = "client"
    /\ last.upAtRead
    /\ last.cached \in WrittenEntries
    /\ ~last.executed
    /\ last.status = 200
    /\ last.cache_key \in DOMAIN store
    /\ store[last.cache_key].ttl = DefaultTTL

\* C19: every entry in the store that perform_crawl wrote has links, images
\* and videos whose elements are all plain strings and passes the validation
\* of CrawlResponse, and a cache hit on such an entry does not fail.
C19_WrittenEntriesMatchSchema ==
    /\ \A k \in DOMAIN store :
          LET entry == json_loads(store[k].value)
          IN entry \notin OldEntries
             => (/\ AllStr(entry.links)
                 /\ AllStr(entry.media.images)
                 /\ AllStr(entry.media.videos)
                 /\ CrawlResponse(entry).ok)
    /\ (/\ last.op = "perform_crawl"
        /\ last.cached # None
        /\ last.cached \notin OldEntries)
       => last.status = 200

\* C20: a background crawl of a batch that ends in an executor failure or
\* fault leaves the crawls still scheduled for the other URLs of the batch
\* scheduled, so that they are run.
C20_BatchItemsIndependent ==
    [][(/\ last'.op = "perform_crawl"
        /\ last'.slot = "bg"
        /\ last'.error \in {"executor_failure", "executor_fault"}
        /\ \E i \in 1..Len(bgTasks) : bgTasks[i].url # last'.request.url)
       => bgTasks' = bgTasks]_vars

\* C21: only startup assigns the handle; after a failed startup probe the
\* handle is unset in every state, whatever the store does afterwards: every
\* lookup is a miss that does not raise, no perform_crawl writes, GET /result
\* answers 404, DELETE /cache answers 503, and the store changes only by its
\* own counting down of the TTLs.
C21_HandleNeverReconnects ==
    [][/\ redis_client' # redis_client
          => (startup = "pending" /\ startup' # "pending")
       /\ startup = "failed"
          => (/\ redis_client = "None"
              /\ redis_client' = "None"
              /\ store' # store => now' > now
              /\ \A s \in Slots :
                    call'[s].pc = "looked"
                    => (call'[s].cached_result = None /\ ~call'[s].raised)
              /\ last'.op = "perform_crawl"
                    => (/\ last'.handle = "None"
                        /\ last'.cached = None
                        /\ ~last'.wrote)
              /\ last'.op = "get_result" => last'.status = 404
              /\ last'.op = "clear_cache" => last'.status = 503)]_vars

\* the probe failed, the store is reachable again and holds an entry under
\* the key, and a crawl for that key neither read nor wrote it
C21_Witness ==
    /\ startup = "failed"
    /\ storeUp
    /\ last.op = "perform_crawl"
    /\ last.upAtRead
    /\ last.upAtWrite
    /\ last.cache_key \in DOMAIN store
    /\ last.cached = None
    /\ last.executed
    /\ GoodResult(last.result)
    /\ last.status = 200
    /\ ~last.wrote
    /\ json_loads(store[last.cache_key].value) \in OldEntries

====
